---- MODULE Spec2Model ----
(***************************************************************************)
(* A state-machine model of src/mcp-client/multi_server_client.py: the     *)
(* multi-server MCP client (class MultiServerMCPClient and main()).        *)
(*                                                                         *)
(* The state is the client object's fields (servers, tool_server_map,      *)
(* exit_stack, client_type), the position of every connection task that    *)
(* connect_to_servers launches with asyncio.gather, the locals of the      *)
(* running process_query call, and the position of the driver (main()).    *)
(* The collaborators (subprocess transport, MCP session, model vendor)     *)
(* are the environment: their outcomes are chosen nondeterministically.    *)
(***************************************************************************)
EXTENDS Integers, Sequences, FiniteSets, TLC

(***************************************************************************)
(* Bounds of the model.                                                    *)
(***************************************************************************)
\* content blocks in the first response of the native provider
MaxBlocks == 2
\* cleanup() calls made by a caller that uses the class directly
MaxCleanups == 2

(***************************************************************************)
(* Configuration: the server descriptors, in configuration-file order.     *)
(***************************************************************************)
Servers == {"A", "B"}
ConfigOrder == <<"A", "B">>

\* The tools each server subprocess reports from list_tools, in its order.
\* Both servers expose a tool named foo.
ServerTools(s) == IF s = "A" THEN <<"foo", "add">> ELSE <<"foo", "cnt">>

\* script_path values: two recognised kinds, an unrecognised kind, and a
\* path that does not exist on disk.
ScriptPaths == {"srv.py", "srv.js", "srv.txt", "gone.py"}

\* What the transport/session collaborator does for a server that is
\* launched: everything works, or one of its awaited calls raises.
Fates == {"ok", "spawn_fails", "initialize_fails", "list_tools_fails"}

VARIABLES
    client_type,      \* self.client_type: "anthropic" | "qwen"
    server_configs,   \* self.server_configs: name -> [enabled, script_path]
    fate,             \* environment: name -> Fates
    driver,           \* who uses the client: "main" | "caller"
    mainpc,           \* position of the driver
    task,             \* name -> position of its _connect_to_server task
    exit_stack,       \* self.exit_stack: handles, last entered last
    servers,          \* self.servers: connections in insertion order
    tool_server_map,  \* self.tool_server_map: tool name -> server name
    spawned,          \* history: servers whose subprocess was spawned
    steps,            \* history: name -> the steps its task has taken
    report,           \* what connect_to_servers printed per server
    connect_returned, \* history: connect_to_servers has returned
    released,         \* history: handles whose release cleanup attempted
    failed_releases,  \* history: handles whose release raised
    pending_exc,      \* exception carried by exit_stack.aclose()
    cleanup_raised,   \* an exception left cleanup()
    ncleanups,        \* completed cleanup() calls
    exit_code,        \* process exit code, -1 while running
    quit_read,        \* history: chat_loop read 'quit'
    qpc,              \* position inside process_query, "idle" outside
    messages,         \* process_query local: the transcript
    available_tools,  \* process_query local: get_all_tools()
    response,         \* process_query local: the first provider response
    idx,              \* native branch: index of the current content block
    cur,              \* the tool invocation being dispatched
    final_text,       \* process_query local: the text segments
    calls,            \* history: what each provider call of the query was sent
    replies,          \* history: what each provider call answered
    dispatches,       \* history: the call_tool calls of the query
    outcome,          \* how the last process_query ended
    ret,              \* the text the last process_query returned
    console           \* what chat_loop printed last

connvars == <<task, exit_stack, servers, tool_server_map, spawned, steps,
              report, connect_returned>>
cleanvars == <<released, failed_releases, pending_exc, cleanup_raised, ncleanups>>
cfgvars == <<client_type, server_configs, fate, driver>>
qvars == <<qpc, messages, available_tools, response, idx, cur, final_text,
           calls, replies, dispatches, outcome, ret>>
vars == <<cfgvars, mainpc, connvars, cleanvars, exit_code, quit_read, qvars,
          console>>

(***************************************************************************)
(* Helpers over sequences and dicts.                                       *)
(***************************************************************************)
Range(q) == {q[i] : i \in 1..Len(q)}

\* Python dict assignment d[k] = v on a dict kept as a function.
DictSet(d, k, v) == [x \in DOMAIN d \cup {k} |-> IF x = k THEN v ELSE d[x]]

\* Variant: the connection is saved before the last tool is mapped.
RECURSIVE RegisterToolsButLast(_, _, _)
RegisterToolsButLast(m, tools, s) ==
    IF Len(tools) <= 1 THEN m
    ELSE RegisterToolsButLast(DictSet(m, Head(tools).name, s), Tail(tools), s)

\* Variant: of two servers exposing a name, the one listed later in the
\* configuration keeps it, whichever registers last.
RECURSIVE RegisterToolsConfigOrder(_, _, _)
RegisterToolsConfigOrder(m, tools, s) ==
    IF tools = <<>> THEN m
    ELSE LET n == Head(tools).name
             pos(x) == CHOOSE i \in 1..Len(ConfigOrder) : ConfigOrder[i] = x
         IN RegisterToolsConfigOrder(
                IF n \in DOMAIN m /\ pos(m[n]) > pos(s) THEN m
                ELSE DictSet(m, n, s),
                Tail(tools), s)

\* Variant: a name already mapped keeps its first server (dict.setdefault).
RECURSIVE RegisterToolsKeepFirst(_, _, _)
RegisterToolsKeepFirst(m, tools, s) ==
    IF tools = <<>> THEN m
    ELSE RegisterToolsKeepFirst(
             IF Head(tools).name \in DOMAIN m THEN m
             ELSE DictSet(m, Head(tools).name, s),
             Tail(tools), s)

\* for tool in tools: self.tool_server_map[tool["name"]] = server_config.name
RECURSIVE RegisterTools(_, _, _)
RegisterTools(m, tools, s) ==
    IF tools = <<>> THEN m
    ELSE RegisterTools(DictSet(m, Head(tools).name, s), Tail(tools), s)

\* os.path.exists(script_path)
PathExists(p) == p # "gone.py"
\* script_path.endswith('.py')
IsPython(p) == p \in {"srv.py", "gone.py"}
\* script_path.endswith('.js')
IsJs(p) == p = "srv.js"

\* [s for s in self.server_configs if s.enabled]
RECURSIVE EnabledIn(_)
EnabledIn(order) ==
    IF order = <<>> THEN <<>>
    ELSE IF server_configs[Head(order)].enabled
         THEN <<Head(order)>> \o EnabledIn(Tail(order))
         ELSE EnabledIn(Tail(order))

EnabledServers == EnabledIn(ConfigOrder)

\* keys of self.servers, in insertion order
RECURSIVE Names(_)
Names(conns) ==
    IF conns = <<>> THEN <<>> ELSE <<Head(conns).name>> \o Names(Tail(conns))

ConnectedNames == Range(Names(servers))

(***************************************************************************)
(* Init: the state after MultiServerMCPClient.__init__.                    *)
(***************************************************************************)
\* A descriptor of a disabled server is never looked at: its script and
\* fate are fixed so that equal behaviours are not counted twice.  The same
\* holds for the fate of a server whose script fails validation.  What the
\* collaborators do does not depend on the interpreter, so the failing
\* fates are drawn for the .py scripts only.
ConfigOk(cfg, ft) ==
    \A s \in Servers :
        /\ ~cfg[s].enabled => cfg[s].script_path = "srv.py"
        /\ (~cfg[s].enabled \/ ~PathExists(cfg[s].script_path)
              \/ ~IsPython(cfg[s].script_path))
           => ft[s] = "ok"

\* No tool invocation is being dispatched.
NoCall == [name |-> "", args |-> ""]

\* No provider response yet.
NoResponse == [status_code |-> 0, blocks |-> <<>>, content |-> <<>>, message |-> ""]

Init ==
    /\ client_type \in {"anthropic", "qwen"}
    /\ server_configs \in [Servers -> [enabled : BOOLEAN, script_path : ScriptPaths]]
    /\ fate \in [Servers -> Fates]
    /\ ConfigOk(server_configs, fate)
    /\ driver \in {"main", "caller"}
    /\ mainpc = "constructed"
    /\ task = [s \in Servers |-> "none"]
    /\ exit_stack = <<>>
    /\ servers = <<>>
    /\ tool_server_map = << >>
    /\ spawned = {}
    /\ steps = [s \in Servers |-> <<>>]
    /\ report = << >>
    /\ connect_returned = FALSE
    /\ released = <<>>
    /\ failed_releases = {}
    /\ pending_exc = FALSE
    /\ cleanup_raised = FALSE
    /\ ncleanups = 0
    /\ exit_code = -1
    /\ quit_read = FALSE
    /\ qpc = "idle"
    /\ messages = <<>>
    /\ available_tools = <<>>
    /\ response = NoResponse
    /\ idx = 0
    /\ cur = NoCall
    /\ final_text = <<>>
    /\ calls = <<>>
    /\ replies = <<>>
    /\ dispatches = <<>>
    /\ outcome = "none"
    /\ ret = <<>>
    /\ console = <<>>

(***************************************************************************)
(* connect_to_servers: launch one task per enabled descriptor.             *)
(***************************************************************************)
\* Lines 95-104: build the coroutine list and hand it to asyncio.gather.
\* With no enabled descriptor gather is not called and the call returns.
connect_to_servers ==
    /\ mainpc = "constructed"
    /\ mainpc' = IF EnabledServers = <<>> THEN "connected" ELSE "gathering"
    /\ connect_returned' = (EnabledServers = <<>>)
    /\ task' = [s \in Servers |->
                  IF server_configs[s].enabled THEN "start" ELSE "none"]
    /\ UNCHANGED <<exit_stack, servers, tool_server_map, spawned, steps, report>>
    /\ UNCHANGED <<quit_read, cfgvars, cleanvars, exit_code, qvars, console>>

\* The record of what a connection task has done so far.
StepTaken(s, step) == [steps EXCEPT ![s] = Append(@, step)]

\* Variant: only the existence of the launch target is checked, and any
\* target that is not a .py script is run with node.
ValidateScriptExistsOnly(p) ==
    IF p = "gone.py" THEN "FileNotFoundError" ELSE "ok"

\* Lines 118-132: the checks before the first await.
ValidateScript(p) ==
    IF ~PathExists(p) THEN "FileNotFoundError"
    ELSE IF ~(IsPython(p) \/ IsJs(p)) THEN "ValueError"
    ELSE "ok"

\* Line 127.
Command(p) == IF IsPython(p) THEN "python" ELSE "node"

connect_validate(s) ==
    /\ mainpc = "gathering"
    /\ task[s] = "start"
    /\ task' = [task EXCEPT ![s] =
                  IF ValidateScript(server_configs[s].script_path) = "ok"
                  THEN "spawning" ELSE "failed"]
    /\ steps' = StepTaken(s, "validate")
    /\ UNCHANGED <<exit_stack, servers, tool_server_map, spawned, report, connect_returned>>
    /\ UNCHANGED <<quit_read, cfgvars, mainpc, cleanvars, exit_code, qvars, console>>

\* Lines 135-138: enter stdio_client on the shared exit stack.
connect_spawn(s) ==
    /\ mainpc = "gathering"
    /\ task[s] = "spawning"
    /\ IF fate[s] = "spawn_fails"
       THEN /\ task' = [task EXCEPT ![s] = "failed"]
            /\ UNCHANGED <<exit_stack, spawned, steps>>
       ELSE /\ task' = [task EXCEPT ![s] = "entering_session"]
            /\ exit_stack' = Append(exit_stack,
                 [kind |-> "stdio", server |-> s,
                  command |-> Command(server_configs[s].script_path)])
            /\ spawned' = spawned \cup {s}
            /\ steps' = StepTaken(s, "spawn")
    /\ UNCHANGED <<servers, tool_server_map, report, connect_returned>>
    /\ UNCHANGED <<quit_read, cfgvars, mainpc, cleanvars, exit_code, qvars, console>>

\* Lines 139-141: enter ClientSession on the shared exit stack.
connect_session(s) ==
    /\ mainpc = "gathering"
    /\ task[s] = "entering_session"
    /\ task' = [task EXCEPT ![s] = "handshake"]
    /\ exit_stack' = Append(exit_stack,
         [kind |-> "session", server |-> s,
          command |-> Command(server_configs[s].script_path)])
    /\ steps' = StepTaken(s, "session")
    /\ UNCHANGED <<servers, tool_server_map, spawned, report, connect_returned>>
    /\ UNCHANGED <<quit_read, cfgvars, mainpc, cleanvars, exit_code, qvars, console>>

\* Variant: an attempt that fails closes the handles it had entered, as a
\* per-attempt async with would.
StackAfterFailureUnwound(stack, s) == SelectSeq(stack, LAMBDA h : h.server # s)

\* Lines 170-172: what the except clause of a failing attempt leaves on the
\* shared exit stack; it prints and re-raises, and closes nothing.
StackAfterFailure(stack, s) == stack

\* Line 143: await session.initialize().
connect_initialize(s) ==
    /\ mainpc = "gathering"
    /\ task[s] = "handshake"
    /\ task' = [task EXCEPT ![s] =
                  IF fate[s] = "initialize_fails" THEN "failed" ELSE "listing"]
    /\ steps' = IF fate[s] = "initialize_fails" THEN steps
               ELSE StepTaken(s, "handshake")
    /\ exit_stack' = IF fate[s] = "initialize_fails"
                    THEN StackAfterFailure(exit_stack, s) ELSE exit_stack
    /\ UNCHANGED <<servers, tool_server_map, spawned, report, connect_returned>>
    /\ UNCHANGED <<quit_read, cfgvars, mainpc, cleanvars, exit_code, qvars, console>>

\* Lines 147-152: the tool descriptors, each tagged with its server.
RECURSIVE ToolRecords(_, _)
ToolRecords(names, s) ==
    IF names = <<>> THEN <<>>
    ELSE <<[name |-> Head(names), server |-> s]>> \o ToolRecords(Tail(names), s)

\* Lines 164-166: save the connection and map every tool to this server.
RegisterConnection(conns, s) ==
    Append(conns, [name |-> s, tools |-> ToolRecords(ServerTools(s), s)])

\* Lines 146-168: await session.list_tools(), then, with no await in
\* between, build the connection and register it.
connect_list_tools(s) ==
    /\ mainpc = "gathering"
    /\ task[s] = "listing"
    /\ IF fate[s] = "list_tools_fails"
       THEN /\ task' = [task EXCEPT ![s] = "failed"]
            /\ exit_stack' = StackAfterFailure(exit_stack, s)
            /\ UNCHANGED <<servers, tool_server_map, steps>>
       ELSE /\ task' = [task EXCEPT ![s] = "done"]
            /\ servers' = RegisterConnection(servers, s)
            /\ tool_server_map' =
                 RegisterTools(tool_server_map, ToolRecords(ServerTools(s), s), s)
            /\ steps' = [steps EXCEPT ![s] = @ \o <<"list_tools", "register">>]
            /\ UNCHANGED exit_stack
    /\ UNCHANGED <<spawned, report, connect_returned>>
    /\ UNCHANGED <<quit_read, cfgvars, mainpc, cleanvars, exit_code, qvars, console>>

\* Lines 107-112: results[i] belongs to the i-th enabled descriptor.
RECURSIVE GatherResults(_)
GatherResults(order) ==
    IF order = <<>> THEN <<>>
    ELSE <<IF task[Head(order)] = "done" THEN "success" ELSE "failure">>
         \o GatherResults(Tail(order))

\* Variant: results[i] is paired with the i-th descriptor of the whole
\* configuration, enabled or not.
ReportOfUnfiltered(results) ==
    [s \in {ConfigOrder[i] : i \in 1..Len(results)} |->
        results[CHOOSE i \in 1..Len(results) : ConfigOrder[i] = s]]

ReportOf(results) ==
    [s \in Range(EnabledServers) |->
        results[CHOOSE i \in 1..Len(EnabledServers) : EnabledServers[i] = s]]

\* Variant: gather without return_exceptions returns at the first failure.
GatherFirstException(tasks) ==
    \/ \A s \in Range(EnabledServers) : tasks[s] \in {"done", "failed"}
    \/ \E s \in Range(EnabledServers) : tasks[s] = "failed"

\* Line 104: gather(..., return_exceptions=True) returns once every task
\* has finished, with a result or with an exception.
GatherComplete(tasks) ==
    \A s \in Range(EnabledServers) : tasks[s] \in {"done", "failed"}

\* Lines 104-112: gather returns and the results are printed.
gather_return ==
    /\ mainpc = "gathering"
    /\ GatherComplete(task)
    /\ report' = ReportOf(GatherResults(EnabledServers))
    /\ connect_returned' = TRUE
    /\ mainpc' = "connected"
    /\ UNCHANGED <<task, exit_stack, servers, tool_server_map, spawned, steps>>
    /\ UNCHANGED <<quit_read, cfgvars, cleanvars, exit_code, qvars, console>>

(***************************************************************************)
(* cleanup: await self.exit_stack.aclose() inside try/except Exception.    *)
(***************************************************************************)
\* Variant: cleanup() is awaited as the last statement of the try block,
\* so only a chat loop that returns reaches it.
ClientInLocalsAfterChat(pc) == pc = "quit"

\* Line 433: 'client' in locals().  The name is bound by line 417, before
\* every position of main that the model has.
ClientInLocals(pc) ==
    pc \in {"constructed", "gathering", "connected", "chat", "quit",
            "no_servers", "interrupted", "main_except"}

\* Lines 432-434 of main(): the finally block, entered when the try block
\* is left by falling off its end, by SystemExit or by an exception.  A
\* direct caller of the class may call cleanup() at any point between its
\* other awaited calls.
cleanup_begin ==
    /\ \/ /\ driver = "main"
          /\ mainpc \in {"quit", "no_servers", "interrupted", "main_except"}
       \/ /\ driver = "caller"
          /\ mainpc \in {"constructed", "connected", "cleaned"}
          /\ ncleanups < MaxCleanups
    /\ mainpc' = IF driver = "main" /\ ~ClientInLocals(mainpc)
                THEN "exited" ELSE "closing"
    /\ pending_exc' = FALSE
    /\ UNCHANGED <<released, failed_releases, cleanup_raised, ncleanups>>
    /\ UNCHANGED <<quit_read, cfgvars, connvars, exit_code, qvars, console>>

\* Variant: the first release that raises ends the unwinding, and the
\* handles below it are dropped without being released.
ExitStackPopStopOnFailure(stack, fails) ==
    IF fails THEN <<>> ELSE SubSeq(stack, 1, Len(stack) - 1)

\* Line 402: what aclose() leaves on the stack after one release; the
\* handle is popped whether or not its release raised.
ExitStackPop(stack, fails) == SubSeq(stack, 1, Len(stack) - 1)

\* AsyncExitStack.aclose pops the handles last-in first-out; a handle whose
\* release raises does not stop the loop, the exception is carried on.
cleanup_release ==
    /\ mainpc = "closing"
    /\ exit_stack # <<>>
    /\ \E fails \in BOOLEAN :
         /\ released' = Append(released, exit_stack[Len(exit_stack)])
         /\ failed_releases' = IF fails
                               THEN failed_releases \cup {exit_stack[Len(exit_stack)]}
                               ELSE failed_releases
         /\ pending_exc' = (pending_exc \/ fails)
         /\ exit_stack' = ExitStackPop(exit_stack, fails)
    /\ UNCHANGED <<cleanup_raised, ncleanups>>
    /\ UNCHANGED <<quit_read, cfgvars, mainpc, task, servers, tool_server_map, spawned,
                   steps, report, connect_returned, exit_code, qvars, console>>

\* Variant: aclose() awaited without a try block, as in client.py.
ExceptionLeavesCleanupNoTry(exc) == exc

\* Lines 401-405: whether an exception raised by aclose() leaves cleanup();
\* the except clause catches it and passes.
ExceptionLeavesCleanup(exc) == FALSE

cleanup_end ==
    /\ mainpc = "closing"
    /\ exit_stack = <<>>
    /\ cleanup_raised' = (cleanup_raised \/ ExceptionLeavesCleanup(pending_exc))
    /\ ncleanups' = ncleanups + 1
    /\ pending_exc' = FALSE
    /\ mainpc' = IF driver = "main" THEN "exited" ELSE "cleaned"
    /\ UNCHANGED <<released, failed_releases>>
    /\ UNCHANGED <<quit_read, cfgvars, connvars, exit_code, qvars, console>>

(***************************************************************************)
(* main(): lines 416-434.                                                  *)
(***************************************************************************)
\* Variant: the chat loop is entered whatever connect_to_servers achieved.
HasServersUnchecked(conns) == TRUE

\* Line 421: if client.servers
HasServers(conns) == conns # <<>>

\* Lines 421-427: no connection, so print and sys.exit(1).
main_no_servers ==
    /\ driver = "main"
    /\ mainpc = "connected"
    /\ ~HasServers(servers)
    /\ mainpc' = "no_servers"
    /\ exit_code' = 1
    /\ UNCHANGED <<quit_read, cfgvars, connvars, cleanvars, qvars, console>>

\* Lines 421-424: at least one connection, so enter chat_loop.
main_chat_loop ==
    /\ driver = "main"
    /\ mainpc = "connected"
    /\ HasServers(servers)
    /\ mainpc' = "chat"
    /\ UNCHANGED <<quit_read, cfgvars, connvars, cleanvars, exit_code, qvars, console>>

\* The locals of process_query do not outlive the call.
QueryLocalsCleared ==
    /\ qpc' = "idle"
    /\ messages' = <<>>
    /\ available_tools' = <<>>
    /\ response' = NoResponse
    /\ idx' = 0
    /\ cur' = NoCall
    /\ final_text' = <<>>

\* chat_loop reads 'quit' (line 368) and main falls to its finally block.
chat_quit ==
    /\ mainpc = "chat"
    /\ qpc = "idle"
    /\ mainpc' = "quit"
    /\ exit_code' = 0
    /\ quit_read' = TRUE
    /\ QueryLocalsCleared
    /\ calls' = <<>>
    /\ replies' = <<>>
    /\ dispatches' = <<>>
    /\ outcome' = "none"
    /\ ret' = <<>>
    /\ console' = <<>>
    /\ UNCHANGED <<cfgvars, connvars, cleanvars>>

\* Lines 364-381: an exception that is not an Exception (KeyboardInterrupt
\* at the prompt) is not caught by line 380 nor by line 429 of main; it
\* leaves chat_loop and main falls to its finally block with it pending.
chat_interrupt ==
    /\ mainpc = "chat"
    /\ qpc = "idle"
    /\ mainpc' = "interrupted"
    /\ exit_code' = 130
    /\ QueryLocalsCleared
    /\ calls' = <<>>
    /\ replies' = <<>>
    /\ dispatches' = <<>>
    /\ outcome' = "none"
    /\ ret' = <<>>
    /\ console' = <<>>
    /\ UNCHANGED <<quit_read, cfgvars, connvars, cleanvars>>

\* Decimal text of a small count.
NumStr(n) == IF n = 0 THEN "0" ELSE IF n = 1 THEN "1" ELSE IF n = 2 THEN "2" ELSE "many"

\* Lines 383-389: one line per connection, with its tool count.
RECURSIVE ServerLines(_)
ServerLines(conns) ==
    IF conns = <<>> THEN <<>>
    ELSE <<Head(conns).name, NumStr(Len(Head(conns).tools)), "NL">>
         \o ServerLines(Tail(conns))

RECURSIVE ToolNames(_)
ToolNames(tools) ==
    IF tools = <<>> THEN <<>> ELSE <<Head(tools).name>> \o ToolNames(Tail(tools))

\* Lines 391-397: per connection its name, then its tools.
RECURSIVE ToolLines(_)
ToolLines(conns) ==
    IF conns = <<>> THEN <<>>
    ELSE <<"server", Head(conns).name, "NL">> \o ToolNames(Head(conns).tools)
         \o <<"NL">> \o ToolLines(Tail(conns))

\* chat_loop reads 'servers' (lines 370-372).
show_servers ==
    /\ mainpc = "chat"
    /\ qpc = "idle"
    /\ console' = <<"servers:">> \o ServerLines(servers)
    /\ UNCHANGED <<quit_read, cfgvars, mainpc, connvars, cleanvars, exit_code, qvars>>

\* chat_loop reads 'tools' (lines 373-375).
show_tools ==
    /\ mainpc = "chat"
    /\ qpc = "idle"
    /\ console' = <<"tools:">> \o ToolLines(servers)
    /\ UNCHANGED <<quit_read, cfgvars, mainpc, connvars, cleanvars, exit_code, qvars>>

(***************************************************************************)
(* Text.  A text is a sequence of tokens; "NL" is a line break and "SP" a  *)
(* blank.  The other tokens are words that hold neither.                   *)
(***************************************************************************)
\* "\n".join(parts)
RECURSIVE JoinLines(_)
JoinLines(parts) ==
    IF parts = <<>> THEN <<>>
    ELSE IF Len(parts) = 1 THEN Head(parts)
    ELSE Head(parts) \o <<"NL">> \o JoinLines(Tail(parts))

\* text.split('\n')
RECURSIVE SplitLines(_)
SplitLines(text) ==
    IF \A i \in 1..Len(text) : text[i] # "NL" THEN <<text>>
    ELSE LET k == CHOOSE i \in 1..Len(text) :
                     text[i] = "NL" /\ \A j \in 1..(i - 1) : text[j] # "NL"
         IN <<SubSeq(text, 1, k - 1)>> \o SplitLines(SubSeq(text, k + 1, Len(text)))

IsSpace(tok) == tok \in {"SP", "NL"}

\* text.strip()
RECURSIVE LStrip(_)
LStrip(text) ==
    IF text # <<>> /\ IsSpace(Head(text)) THEN LStrip(Tail(text)) ELSE text

RECURSIVE RStrip(_)
RStrip(text) ==
    IF text # <<>> /\ IsSpace(text[Len(text)])
    THEN RStrip(SubSeq(text, 1, Len(text) - 1)) ELSE text

Strip(text) == LStrip(RStrip(text))

\* text.split(" ", 1): one part without a blank, else the text before the
\* first blank and the text after it.
SplitFirstBlank(text) ==
    IF \A i \in 1..Len(text) : text[i] # "SP" THEN <<text>>
    ELSE LET k == CHOOSE i \in 1..Len(text) :
                     text[i] = "SP" /\ \A j \in 1..(i - 1) : text[j] # "SP"
         IN <<SubSeq(text, 1, k - 1), SubSeq(text, k + 1, Len(text))>>

\* The string a run of word tokens spells.  Tool names are single words; a
\* run of several words spells a string no server registers.
Spell(text) ==
    IF text = <<>> THEN "" ELSE IF Len(text) = 1 THEN text[1] ELSE "glued-words"

\* json.loads on the argument text: the two well-formed objects the model
\* uses, anything else raises JSONDecodeError.
JsonValid(text) == text \in {<<"{}">>, <<"{a:1}">>}
JsonLoads(text) == IF text = <<"{}">> THEN "no-args" ELSE "a=1"

\* str(tool_args) inside the annotation
ArgsRepr(args) == IF args = "no-args" THEN "{}" ELSE "{'a': 1}"

(***************************************************************************)
(* The routing table and the dispatcher.                                   *)
(***************************************************************************)
\* Variant: the catalogue is built from the routing table, so a tool name
\* two servers expose is listed once, for the server that owns the name.
RECURSIVE get_all_tools_routed(_)
get_all_tools_routed(conns) ==
    IF conns = <<>> THEN <<>>
    ELSE SelectSeq(Head(conns).tools,
                   LAMBDA t : /\ t.name \in DOMAIN tool_server_map
                              /\ tool_server_map[t.name] = t.server)
         \o get_all_tools_routed(Tail(conns))

\* Lines 174-179.
RECURSIVE get_all_tools(_)
get_all_tools(conns) ==
    IF conns = <<>> THEN <<>>
    ELSE Head(conns).tools \o get_all_tools(Tail(conns))

\* self.tool_server_map.get(tool_name): "" stands for None.
MapGet(m, k) == IF k \in DOMAIN m THEN m[k] ELSE ""

\* Variant: the routing table is not consulted before the session is used.
call_tool_unchecked(m, conns, tool_name) ==
    IF MapGet(m, tool_name) # "" /\ MapGet(m, tool_name) \notin Range(Names(conns))
    THEN "ServerUnavailable" ELSE "forward"

\* Lines 183-191: which error call_tool raises before it reaches a
\* session, or "forward" when it awaits session.call_tool.
call_tool(m, conns, tool_name) ==
    IF MapGet(m, tool_name) = "" THEN "UnknownTool"
    ELSE IF MapGet(m, tool_name) \notin Range(Names(conns)) THEN "ServerUnavailable"
    ELSE "forward"

\* result.content of a tool call answered by server s
ResultContent(s) == <<IF s = "A" THEN "result@A" ELSE "result@B">>

(***************************************************************************)
(* The model provider: what _call_model sends and what can come back.      *)
(***************************************************************************)
TextBlock(t) == [type |-> "text", text |-> <<t>>, name |-> "", input |-> ""]
ToolUseBlock(n, a) == [type |-> "tool_use", text |-> <<>>, name |-> n, input |-> a]

NativeResponse(blocks) ==
    [status_code |-> 200, blocks |-> blocks, content |-> <<>>, message |-> ""]
QwenResponse(content) ==
    [status_code |-> 200, blocks |-> <<>>, content |-> content, message |-> ""]
QwenError == [status_code |-> 500, blocks |-> <<>>, content |-> <<>>,
              message |-> "server-error"]
\* the provider call raised instead of returning
Raised == [status_code |-> -1, blocks |-> <<>>, content |-> <<>>,
           message |-> "raised"]

\* Content blocks of a first native response.
FirstBlocks == {TextBlock("t1"), TextBlock("t2"),
                ToolUseBlock("foo", "a=1"), ToolUseBlock("zzz", "no-args")}

BlockSeqs(n) == UNION {[1..k -> FirstBlocks] : k \in 0..n}

NativeFirst == {NativeResponse(b) : b \in BlockSeqs(MaxBlocks)}

\* Follow-up native responses: no block, text only, and a further tool use.
NativeFollow ==
    {NativeResponse(<<>>),
     NativeResponse(<<TextBlock("f1")>>),
     NativeResponse(<<TextBlock("f1"), TextBlock("f2")>>),
     NativeResponse(<<ToolUseBlock("foo", "a=1")>>),
     NativeResponse(<<TextBlock("f1"), ToolUseBlock("foo", "a=1")>>)}

\* Message texts of a first text-protocol response.
QwenTexts ==
    {<<"hello">>,
     <<"I", "SP", "will", "SP", "help.", "NL",
       "TOOL_CALL:", "SP", "foo", "SP", "{a:1}", "NL", "extra">>,
     <<"TOOL_CALL:", "SP", "foo", "SP", "{bad">>,
     <<"TOOL_CALL:", "SP", "foo", "NL", "TOOL_CALL:", "SP", "add", "SP", "{}">>,
     <<"say", "SP", "TOOL_CALL:", "SP", "foo">>,
     <<"SP", "TOOL_CALL:", "zzz", "SP", "SP", "{}", "SP">>,
     <<"TOOL_CALL:", "SP", "foo", "SP", "{bad", "NL", "TOOL_CALL:", "SP", "add">>,
     <<"ok", "NL", "TOOL_CALL:">>}

QwenFirst == {QwenResponse(c) : c \in QwenTexts} \cup {QwenError}

QwenFollow ==
    {QwenResponse(<<"done">>),
     QwenResponse(<<"more", "NL", "TOOL_CALL:", "SP", "foo", "SP", "{}">>),
     QwenError}

\* Lines 226-235: the tool catalogue as text.
RECURSIVE ToolDescriptions(_)
ToolDescriptions(tools) ==
    IF tools = <<>> THEN <<>>
    ELSE <<"-", Head(tools).name, "from", Head(tools).server, "NL">>
         \o ToolDescriptions(Tail(tools))

ToolsInfo(tools) == <<"tools-info:">> \o ToolDescriptions(tools) \o <<"usage">>

\* Lines 210-222: a copy of every message, role "tool" turned into a user
\* message.
RECURSIVE QwenMessages(_)
QwenMessages(msgs) ==
    IF msgs = <<>> THEN <<>>
    ELSE <<IF Head(msgs).role = "tool"
           THEN [role |-> "user",
                 content |-> <<"tool-result:">> \o Head(msgs).content]
           ELSE [role |-> Head(msgs).role, content |-> Head(msgs).content]>>
         \o QwenMessages(Tail(msgs))

\* Lines 225-241: the catalogue goes in front of the first user message of
\* the copy.
WithToolsInfo(qmsgs, tools) ==
    IF tools = <<>> THEN qmsgs
    ELSE IF qmsgs # <<>> /\ qmsgs[1].role = "user"
    THEN <<[role |-> "user",
            content |-> ToolsInfo(tools) \o <<"NL", "NL">> \o qmsgs[1].content]>>
         \o Tail(qmsgs)
    ELSE <<[role |-> "user", content |-> ToolsInfo(tools)]>> \o qmsgs

\* Lines 193-249: the request _call_model hands to the vendor client.
Request(ct, msgs, tools) ==
    IF ct = "anthropic"
    THEN [messages |-> msgs, tools |-> tools]
    ELSE [messages |-> WithToolsInfo(QwenMessages(msgs), tools), tools |-> <<>>]

(***************************************************************************)
(* process_query: lines 251-355.                                           *)
(***************************************************************************)
\* Variant: the catalogue list is the first connection's own tool list,
\* extended in place with the tools of the others.
ServersAfterGetAllToolsAliased(conns) ==
    IF conns = <<>> THEN conns
    ELSE <<[Head(conns) EXCEPT !.tools = get_all_tools(conns)]>> \o Tail(conns)

\* Lines 176-178: what get_all_tools leaves in self.servers; it extends a
\* fresh list and writes to no connection.
ServersAfterGetAllTools(conns) == conns

\* chat_loop reads anything else (line 377); lines 253-261 of process_query.
start_query ==
    /\ mainpc = "chat"
    /\ qpc = "idle"
    /\ qpc' = "call_first"
    /\ messages' = <<[role |-> "user", content |-> <<"query">>]>>
    /\ available_tools' = get_all_tools(servers)
    /\ response' = NoResponse
    /\ idx' = 0
    /\ cur' = NoCall
    /\ final_text' = <<>>
    /\ calls' = <<>>
    /\ replies' = <<>>
    /\ dispatches' = <<>>
    /\ outcome' = "running"
    /\ ret' = <<>>
    /\ console' = <<>>
    /\ servers' = ServersAfterGetAllTools(servers)
    /\ UNCHANGED <<task, exit_stack, tool_server_map, spawned, steps, report,
                   connect_returned>>
    /\ UNCHANGED <<quit_read, cfgvars, mainpc, cleanvars, exit_code>>

FirstResponses(ct) == IF ct = "anthropic" THEN NativeFirst ELSE QwenFirst
FollowResponses(ct) == IF ct = "anthropic" THEN NativeFollow ELSE QwenFollow

\* Variant: the text-protocol copy holds the transcript's own message
\* objects, so the catalogue written into its first message is written
\* into the stored transcript.
StoredAfterCallAliased(ct, msgs, tools) ==
    IF ct = "qwen" THEN WithToolsInfo(QwenMessages(msgs), tools) ELSE msgs

\* Lines 198-222: what _call_model leaves in the caller's transcript.  The
\* native branch hands the list over as it is; the text-protocol branch
\* builds new message dicts and writes only to those.
StoredAfterCall(ct, msgs, tools) == msgs

\* Variant: the try block is around the while loop, so an exception of a
\* query leaves chat_loop.
ChatLoopCatchesOutsideLoop(e) == FALSE

\* Lines 365 and 380: whether an Exception raised while a query is
\* processed is caught inside the while loop.
ChatLoopCatches(e) == TRUE

\* Line 264: the first provider call, outside every try block.  When it
\* raises, the exception leaves process_query and chat_loop prints it
\* (lines 380-381).
call_first ==
    /\ qpc = "call_first"
    /\ calls' = Append(calls, Request(client_type, messages, available_tools))
    /\ \E r \in FirstResponses(client_type) \cup {Raised} :
         /\ replies' = Append(replies, r)
         /\ IF r = Raised
            THEN /\ QueryLocalsCleared
                 /\ outcome' = "raised"
                 /\ console' = <<"error:", "ProviderRaised">>
                 /\ mainpc' = IF ChatLoopCatches(r) THEN mainpc ELSE "main_except"
                 /\ exit_code' = IF ChatLoopCatches(r) THEN exit_code ELSE 1
            ELSE /\ response' = r
                 /\ idx' = 1
                 /\ qpc' = IF client_type = "anthropic" THEN "blocks" ELSE "scan"
                 /\ messages' = StoredAfterCall(client_type, messages, available_tools)
                 /\ UNCHANGED <<available_tools, cur, final_text, outcome, console,
                                mainpc, exit_code>>
    /\ UNCHANGED <<dispatches, ret>>
    /\ UNCHANGED <<quit_read, cfgvars, connvars, cleanvars>>

\* Variant: the text of a block is put in front of the segments.
NativeTextSegmentInFront(segments, block) == <<block.text>> \o segments

\* Line 273: final_text.append(content.text)
NativeTextSegment(segments, block) == Append(segments, block.text)

\* Lines 271-276: the next content block of the first native response.
native_block ==
    /\ qpc = "blocks"
    /\ idx <= Len(response.blocks)
    /\ IF response.blocks[idx].type = "text"
       THEN /\ final_text' = NativeTextSegment(final_text, response.blocks[idx])
            /\ idx' = idx + 1
            /\ UNCHANGED <<qpc, cur>>
       ELSE /\ cur' = [name |-> response.blocks[idx].name,
                       args |-> response.blocks[idx].input]
            /\ qpc' = "dispatch"
            /\ UNCHANGED <<final_text, idx>>
    /\ UNCHANGED <<messages, available_tools, response, calls, replies,
                   dispatches, outcome, ret, console>>
    /\ UNCHANGED <<quit_read, cfgvars, mainpc, connvars, cleanvars, exit_code>>

\* "TOOL_CALL:" in message_content
HasSentinel(text) == \E i \in 1..Len(text) : text[i] = "TOOL_CALL:"

\* Variant: a line that holds the sentinel anywhere counts.
IsSentinelLineAnywhere(line) == \E i \in 1..Len(line) : line[i] = "TOOL_CALL:"

\* line.strip().startswith("TOOL_CALL:")
IsSentinelLine(line) == Strip(line) # <<>> /\ Head(Strip(line)) = "TOOL_CALL:"

\* Variant: the loop does not break, so the last sentinel line wins.
LastSentinelLine(lines) ==
    IF \A i \in 1..Len(lines) : ~IsSentinelLine(lines[i]) THEN 0
    ELSE CHOOSE i \in 1..Len(lines) :
             IsSentinelLine(lines[i])
             /\ \A j \in (i + 1)..Len(lines) : ~IsSentinelLine(lines[j])

\* Lines 310-311: the first line the for loop stops at, 0 when there is none.
FirstSentinelLine(lines) ==
    IF \A i \in 1..Len(lines) : ~IsSentinelLine(lines[i]) THEN 0
    ELSE CHOOSE i \in 1..Len(lines) :
             IsSentinelLine(lines[i]) /\ \A j \in 1..(i - 1) : ~IsSentinelLine(lines[j])

\* Line 314: line.strip().split("TOOL_CALL:", 1)[1].strip().split(" ", 1)
SentinelParts(line) == SplitFirstBlank(Strip(Tail(Strip(line))))

\* Variant: argument text that does not load is replaced by no arguments
\* and the call goes ahead.
ParseToolCallLenient(text) ==
    LET lines == SplitLines(text)
        k == FirstSentinelLine(lines)
    IN IF ~HasSentinel(text) \/ k = 0
       THEN [found |-> FALSE, parsed |-> FALSE, name |-> "", args |-> ""]
       ELSE LET parts == SentinelParts(lines[k])
            IN [found |-> TRUE, parsed |-> TRUE, name |-> Spell(Strip(parts[1])),
                args |-> IF Len(parts) > 1 /\ JsonValid(Strip(parts[2]))
                         THEN JsonLoads(Strip(parts[2])) ELSE "no-args"]

\* Lines 308-320: what the scan of the message text finds.  found: a
\* sentinel line exists; parsed: its argument text was absent or loaded.
ParseToolCall(text) ==
    LET lines == SplitLines(text)
        k == FirstSentinelLine(lines)
    IN IF ~HasSentinel(text) \/ k = 0
       THEN [found |-> FALSE, parsed |-> FALSE, name |-> "", args |-> ""]
       ELSE LET parts == SentinelParts(lines[k])
                name == Spell(Strip(parts[1]))
            IN IF Len(parts) > 1
               THEN IF JsonValid(Strip(parts[2]))
                    THEN [found |-> TRUE, parsed |-> TRUE, name |-> name,
                          args |-> JsonLoads(Strip(parts[2]))]
                    ELSE [found |-> TRUE, parsed |-> FALSE, name |-> name,
                          args |-> "no-args"]
               ELSE [found |-> TRUE, parsed |-> TRUE, name |-> name,
                     args |-> "no-args"]

\* Lines 342-344: the except clause of the text-protocol branch.
QwenExcept(segments, e, message_content) ==
    segments \o <<<<"parse-error:", e>>, message_content>>

\* Lines 304-320 and 342-353: the text-protocol branch up to its first await.
qwen_scan ==
    /\ qpc = "scan"
    /\ LET call == ParseToolCall(response.content)
       IN IF response.status_code # 200
          THEN /\ final_text' = Append(final_text, <<"error:", response.message>>)
               /\ qpc' = "return"
               /\ UNCHANGED cur
          ELSE IF ~call.found
          THEN /\ final_text' = Append(final_text, response.content)
               /\ qpc' = "return"
               /\ UNCHANGED cur
          ELSE IF ~call.parsed
          THEN /\ final_text' =
                    QwenExcept(final_text, "JSONDecodeError", response.content)
               /\ qpc' = "return"
               /\ UNCHANGED cur
          ELSE /\ cur' = [name |-> call.name, args |-> call.args]
               /\ qpc' = "dispatch"
               /\ UNCHANGED final_text
    /\ UNCHANGED <<messages, available_tools, response, idx, calls, replies,
                   dispatches, outcome, ret, console>>
    /\ UNCHANGED <<quit_read, cfgvars, mainpc, connvars, cleanvars, exit_code>>

\* Lines 283 and 325.
Annotation(server_name, tool_name, tool_args) ==
    <<"[call", server_name, tool_name, ArgsRepr(tool_args), "]">>

\* hasattr(content, 'text') and content.text (line 286)
HasText(block) == block.type = "text" /\ block.text # <<>>

\* Variant: the assistant message is appended and the tool result is not.
ToolMessagesAssistantOnly(ct, block, message_content, s) ==
    <<[role |-> "assistant", content |-> message_content]>>

\* Variant: the tool result is appended before the assistant message.
ToolMessagesResultFirst(ct, block, message_content, s) ==
    <<[role |-> "user", content |-> ResultContent(s)],
      [role |-> "assistant", content |-> message_content]>>

\* Lines 285-294 and 327-335: the messages appended after a tool call.
ToolMessages(ct, block, message_content, s) ==
    IF ct = "anthropic"
    THEN (IF HasText(block)
          THEN <<[role |-> "assistant", content |-> block.text]>> ELSE <<>>)
         \o <<[role |-> "user", content |-> ResultContent(s)]>>
    ELSE <<[role |-> "assistant", content |-> message_content],
           [role |-> "user", content |-> <<"tool-result:">> \o ResultContent(s)]>>

\* Lines 300-301: the except clause of the native branch.
NativeExcept(segments, e) == Append(segments, <<"tool-call-failed:", e>>)

\* The outcomes of await self.call_tool(...): an error raised by call_tool
\* itself, or what the session's call_tool does.
DispatchOutcomes(route) ==
    IF route = "forward" THEN {"ok", "InvocationFailed"} ELSE {route}

\* Variant: the transcript is started again from the query for every
\* follow-up call.
TranscriptRestarted(msgs, new) == <<Head(msgs)>> \o new

\* Lines 287-294 and 328-335: messages.append(...)
TranscriptAfterTool(msgs, new) == msgs \o new

\* Variant: the except clause falls through to the next provider call.
AfterExceptCallsModel(ct) == "call_next"

\* Where control goes after the except clause: the native for loop takes
\* its next block (line 271), the text-protocol loop breaks (line 345).
AfterExcept(ct) == IF ct = "anthropic" THEN "blocks" ELSE "return"

\* Variant: call_tool is awaited outside the try block.
DispatchErrorLeavesNoTry(e) == e # "ok"

\* Lines 300 and 342: whether an error raised by call_tool leaves
\* process_query; the call is inside the try, the clause catches Exception.
DispatchErrorLeaves(e) == FALSE

\* Lines 280-294 and 322-335: await call_tool, then on success the
\* annotation and the transcript; on failure the except clause.
dispatch ==
    /\ qpc = "dispatch"
    /\ LET route == call_tool(tool_server_map, servers, cur.name)
           server_name == MapGet(tool_server_map, cur.name)
       IN \E res \in DispatchOutcomes(route) :
            /\ dispatches' = Append(dispatches,
                 [tool |-> cur.name, args |-> cur.args,
                  session |-> IF route = "forward" THEN server_name ELSE "",
                  result |-> res])
            /\ IF res = "ok"
               THEN /\ final_text' = Append(final_text,
                         Annotation(server_name, cur.name, cur.args))
                    /\ messages' = TranscriptAfterTool(messages,
                         ToolMessages(client_type,
                                      IF client_type = "anthropic"
                                      THEN response.blocks[idx]
                                      ELSE TextBlock("none"),
                                      response.content, server_name))
                    /\ qpc' = "call_next"
                    /\ cur' = NoCall
                    /\ UNCHANGED <<idx, available_tools, response, outcome, console>>
               ELSE IF DispatchErrorLeaves(res)
               THEN /\ QueryLocalsCleared
                    /\ outcome' = "raised"
                    /\ console' = <<"error:", res>>
               ELSE /\ final_text' =
                         IF client_type = "anthropic"
                         THEN NativeExcept(final_text, res)
                         ELSE QwenExcept(final_text, res, response.content)
                    /\ qpc' = AfterExcept(client_type)
                    /\ idx' = IF AfterExcept(client_type) = "blocks"
                              THEN idx + 1 ELSE idx
                    /\ cur' = NoCall
                    /\ UNCHANGED <<messages, available_tools, response, outcome,
                                   console>>
    /\ UNCHANGED <<calls, replies, ret>>
    /\ UNCHANGED <<quit_read, cfgvars, mainpc, connvars, cleanvars, exit_code>>

\* Variant: the follow-up is handled like the first response, every block
\* of it leaving its text or the annotation of its tool call.
RECURSIVE BlocksAsFirst(_)
BlocksAsFirst(blocks) ==
    IF blocks = <<>> THEN <<>>
    ELSE <<IF Head(blocks).type = "text" THEN Head(blocks).text
           ELSE Annotation(MapGet(tool_server_map, Head(blocks).name),
                           Head(blocks).name, Head(blocks).input)>>
         \o BlocksAsFirst(Tail(blocks))

NativeFollowTextAsFirst(segments, r) == segments \o BlocksAsFirst(r.blocks)

\* Variant: the text of the last block of the follow-up is appended.
NativeFollowTextLast(segments, r) ==
    IF r.blocks = <<>> THEN Append(segments, <<"tool-call-failed:", "IndexError">>)
    ELSE Append(segments, r.blocks[Len(r.blocks)].text)

\* Line 298: final_text.append(response.content[0].text), inside the try.
NativeFollowText(segments, r) ==
    IF r = Raised THEN NativeExcept(segments, "ProviderRaised")
    ELSE IF r.blocks = <<>> THEN NativeExcept(segments, "IndexError")
    ELSE IF r.blocks[1].type # "text" THEN NativeExcept(segments, "AttributeError")
    ELSE Append(segments, r.blocks[1].text)

\* Lines 338-344.
QwenFollowText(segments, r, message_content) ==
    IF r = Raised THEN QwenExcept(segments, "ProviderRaised", message_content)
    ELSE IF r.status_code = 200 THEN Append(segments, r.content)
    ELSE segments

\* Variant: a follow-up text that holds the sentinel asks for another
\* provider call.
AfterFollowUpLoops(ct, r) ==
    IF ct = "anthropic" THEN "blocks"
    ELSE IF HasSentinel(r.content) THEN "call_next" ELSE "return"

\* Where control goes after the follow-up call: the native for loop takes
\* the next block of the first response (line 271), the text-protocol
\* loop breaks (line 345).
AfterFollowUp(ct, r) == IF ct = "anthropic" THEN "blocks" ELSE "return"

\* Lines 296-298 and 337-340: the provider call after a tool result.
call_next ==
    /\ qpc = "call_next"
    /\ calls' = Append(calls, Request(client_type, messages, available_tools))
    /\ messages' = StoredAfterCall(client_type, messages, available_tools)
    /\ \E r \in FollowResponses(client_type) \cup {Raised} :
         /\ replies' = Append(replies, r)
         /\ qpc' = AfterFollowUp(client_type, r)
         /\ IF client_type = "anthropic"
            THEN /\ final_text' = NativeFollowText(final_text, r)
                 /\ idx' = idx + 1
            ELSE /\ final_text' = QwenFollowText(final_text, r, response.content)
                 /\ UNCHANGED idx
    /\ UNCHANGED <<available_tools, response, cur, dispatches,
                   outcome, ret, console>>
    /\ UNCHANGED <<quit_read, cfgvars, mainpc, connvars, cleanvars, exit_code>>

\* Line 355, then line 378 of chat_loop.
return_query ==
    /\ \/ qpc = "return"
       \/ qpc = "blocks" /\ idx > Len(response.blocks)
    /\ ret' = JoinLines(final_text)
    /\ outcome' = "returned"
    /\ console' = <<"NL">> \o JoinLines(final_text)
    /\ QueryLocalsCleared
    /\ UNCHANGED <<calls, replies, dispatches>>
    /\ UNCHANGED <<quit_read, cfgvars, mainpc, connvars, cleanvars, exit_code>>

Next ==
    \/ connect_to_servers
    \/ \E s \in Servers : connect_validate(s)
    \/ \E s \in Servers : connect_spawn(s)
    \/ \E s \in Servers : connect_session(s)
    \/ \E s \in Servers : connect_initialize(s)
    \/ \E s \in Servers : connect_list_tools(s)
    \/ gather_return
    \/ main_no_servers
    \/ main_chat_loop
    \/ chat_quit
    \/ chat_interrupt
    \/ show_servers
    \/ show_tools
    \/ start_query
    \/ call_first
    \/ native_block
    \/ qwen_scan
    \/ dispatch
    \/ call_next
    \/ return_query
    \/ cleanup_begin
    \/ cleanup_release
    \/ cleanup_end

Spec == Init /\ [][Next]_vars

(***************************************************************************)
(* Properties.  The notions they use are stated here on their own, from    *)
(* the configuration and the provider's replies, not through the           *)
(* operators of the code above.                                            *)
(***************************************************************************)
EnabledSet == {s \in Servers : server_configs[s].enabled}

\* The launch target exists, is a .py or .js script, and the subprocess,
\* the handshake and the tool listing all work.
Connectable(s) ==
    /\ server_configs[s].script_path \in {"srv.py", "srv.js"}
    /\ fate[s] = "ok"

Succeeding == {s \in EnabledSet : Connectable(s)}
Failing == EnabledSet \ Succeeding

\* C1: after connect_to_servers returns, exactly the enabled connectable
\* servers are reported as successes, exactly the enabled failing ones as
\* failures, each under its own name, and the keys of self.servers are
\* exactly the connectable names.
C1_ConnectReport ==
    connect_returned =>
        /\ DOMAIN report = EnabledSet
        /\ {s \in DOMAIN report : report[s] = "success"} = Succeeding
        /\ {s \in DOMAIN report : report[s] = "failure"} = Failing
        /\ ConnectedNames = Succeeding
        /\ Len(servers) = Cardinality(Succeeding)

C1_Witness ==
    /\ connect_returned
    /\ Cardinality(Succeeding) = 1
    /\ Cardinality(Failing) = 1
    /\ \E s \in Servers : report[s] = "failure" /\ s \in spawned

\* C2: when two servers that both expose foo register one after the other,
\* the routing table maps foo to the one that registered last, and every
\* call_tool("foo", ...) is forwarded to that server's session only.
C2_LastRegistrationWins ==
    \A x \in Servers : \A y \in Servers :
        Names(servers) = <<x, y>> =>
            /\ "foo" \in DOMAIN tool_server_map
            /\ tool_server_map["foo"] = y
            /\ \A i \in 1..Len(dispatches) :
                   dispatches[i].tool = "foo" => dispatches[i].session = y

C2_Witness ==
    /\ Names(servers) = <<"A", "B">>
    /\ \E i \in 1..Len(dispatches) :
           /\ dispatches[i].tool = "foo"
           /\ dispatches[i].session = "B"
           /\ dispatches[i].result = "ok"

ProbeNames == {"foo", "add", "cnt", "zzz", "", "glued-words"}

\* C3: in every reachable state call_tool on a name with no entry in the
\* routing table fails with the unknown-tool error, and a dispatch of such
\* a name contacts no session.
C3_UnknownTool ==
    /\ \A n \in ProbeNames \ DOMAIN tool_server_map :
           call_tool(tool_server_map, servers, n) = "UnknownTool"
    /\ \A i \in 1..Len(dispatches) :
           dispatches[i].tool \notin DOMAIN tool_server_map =>
               /\ dispatches[i].result = "UnknownTool"
               /\ dispatches[i].session = ""

C3_Witness ==
    /\ servers # <<>>
    /\ \E i \in 1..Len(dispatches) :
           /\ dispatches[i].tool = "zzz"
           /\ dispatches[i].result = "UnknownTool"

\* A line of the text protocol that calls a tool: the sentinel, with
\* nothing but blanks before it.
SpecSentinelLine(line) ==
    \E k \in 1..Len(line) :
        line[k] = "TOOL_CALL:" /\ \A j \in 1..(k - 1) : line[j] = "SP"

SpecSentinelLines(text) ==
    {i \in 1..Len(SplitLines(text)) : SpecSentinelLine(SplitLines(text)[i])}

\* The tool invocations a provider reply holds.
InvocationCount(r) ==
    Cardinality({i \in 1..Len(r.blocks) : r.blocks[i].type = "tool_use"})
    + Cardinality(SpecSentinelLines(r.content))

\* The provider answered, rather than raising or reporting a failure.
IsAnswer(r) == r.status_code = 200

\* The text of a reply: the message text, or the text blocks one per line.
RECURSIVE BlockText(_)
BlockText(blocks) ==
    IF blocks = <<>> THEN <<>>
    ELSE IF Len(blocks) = 1 THEN Head(blocks).text
    ELSE Head(blocks).text \o <<"NL">> \o BlockText(Tail(blocks))

TextOf(r) == IF r.blocks = <<>> THEN r.content ELSE BlockText(r.blocks)

\* C4: for either strategy, a query whose first reply is an answer with no
\* tool invocation ends after exactly one provider call, with no dispatch,
\* and returns the text of that reply unchanged.
C4_NoToolRoundTrip ==
    (outcome = "returned" /\ IsAnswer(replies[1]) /\ InvocationCount(replies[1]) = 0)
    => /\ Len(calls) = 1
       /\ dispatches = <<>>
       /\ ret = TextOf(replies[1])

C4_Witness ==
    /\ outcome = "returned"
    /\ client_type = "qwen"
    /\ replies[1] = QwenResponse(<<"say", "SP", "TOOL_CALL:", "SP", "foo">>)
    /\ ret = <<"say", "SP", "TOOL_CALL:", "SP", "foo">>

\* The scenario of C5 and C6 at the end of a query: the first reply holds
\* exactly one tool invocation, its dispatch succeeded, and the reply to
\* the follow-up call is an answer with no tool invocation.
OneToolThenAnswer ==
    /\ outcome = "returned"
    /\ IsAnswer(replies[1])
    /\ InvocationCount(replies[1]) = 1
    /\ dispatches # <<>>
    /\ dispatches[1].result = "ok"
    /\ Len(replies) >= 2 => (IsAnswer(replies[2]) /\ InvocationCount(replies[2]) = 0)

IsUserQuery(m) ==
    m.role = "user" /\ m.content # <<>> /\ m.content[Len(m.content)] = "query"

IsToolResultOf(m, d) ==
    /\ m.role = "user"
    /\ m.content # <<>>
    /\ m.content[Len(m.content)] = (IF d.session = "A" THEN "result@A" ELSE "result@B")

\* C5: in that scenario the query ends after exactly two provider calls;
\* the first call is sent the user message alone and the second, in order,
\* the user message, at most one assistant message, the tool result.
C5_TwoCallsTranscript ==
    OneToolThenAnswer =>
        /\ Len(calls) = 2
        /\ Len(calls[1].messages) = 1
        /\ IsUserQuery(calls[1].messages[1])
        /\ LET t == calls[2].messages
           IN /\ Len(t) \in {2, 3}
              /\ IsUserQuery(t[1])
              /\ Len(t) = 3 => t[2].role = "assistant"
              /\ IsToolResultOf(t[Len(t)], dispatches[1])

C5_Witness ==
    /\ OneToolThenAnswer
    /\ client_type = "qwen"
    /\ Len(calls) = 2
    /\ Len(calls[2].messages) = 3

\* The inline calling-tool annotation of a dispatch.
AnnotationOf(d) ==
    <<"[call", d.session, d.tool, IF d.args = "no-args" THEN "{}" ELSE "{'a': 1}", "]">>

RECURSIVE Lines(_)
Lines(segs) ==
    IF segs = <<>> THEN <<>>
    ELSE IF Len(segs) = 1 THEN Head(segs)
    ELSE Head(segs) \o <<"NL">> \o Lines(Tail(segs))

\* The words of a line, blanks dropped.
RECURSIVE Words(_)
Words(line) ==
    IF line = <<>> THEN <<>>
    ELSE IF Head(line) = "SP" THEN Words(Tail(line))
    ELSE <<Head(line)>> \o Words(Tail(line))

\* The words a reply holds as prose: those of its text blocks and of the
\* lines of its message text that are not sentinel lines.
ProseWords(r) ==
    {r.blocks[i].text[j] :
        i \in {k \in 1..Len(r.blocks) : r.blocks[k].type = "text"}, j \in {1}}
    \cup UNION {Range(Words(SplitLines(r.content)[i])) :
                  i \in (1..Len(SplitLines(r.content))) \ SpecSentinelLines(r.content)}

\* C6 as the specification states it, in the part that fails: the answer
\* starts with the annotation and holds no prose of the first reply.
C6_AnswerIsSecondReplyOnly ==
    OneToolThenAnswer =>
        /\ SubSeq(ret, 1, 5) = AnnotationOf(dispatches[1])
        /\ \A w \in ProseWords(replies[1]) : w \notin Range(ret)

\* What the native branch puts in the answer for the follow-up reply: the
\* text of its first block.
FirstBlockText(r) ==
    IF r.blocks = <<>> THEN <<"tool-call-failed:", "IndexError">>
    ELSE r.blocks[1].text

\* The segments of the native answer: the text blocks of the first reply
\* in place, and where the tool-use block stood the annotation and then
\* the follow-up's text.
RECURSIVE NativeSegments(_, _, _)
NativeSegments(blocks, d, follow) ==
    IF blocks = <<>> THEN <<>>
    ELSE (IF Head(blocks).type = "text" THEN <<Head(blocks).text>>
          ELSE <<AnnotationOf(d), FirstBlockText(follow)>>)
         \o NativeSegments(Tail(blocks), d, follow)

\* C6, amended: the text-protocol answer is the annotation followed by the
\* text of the second reply; the native answer also holds every text block
\* of the first reply, in block order around the annotation, and of the
\* second reply the text of its first block only.
C6_AnswerContents ==
    OneToolThenAnswer =>
        ret = IF client_type = "qwen"
              THEN Lines(<<AnnotationOf(dispatches[1]), replies[2].content>>)
              ELSE Lines(NativeSegments(replies[1].blocks, dispatches[1], replies[2]))

C6_Witness ==
    /\ OneToolThenAnswer
    /\ client_type = "anthropic"
    /\ replies[1] = NativeResponse(<<TextBlock("t1"), ToolUseBlock("foo", "a=1")>>)
    /\ replies[2] = NativeResponse(<<TextBlock("f1")>>)
    /\ ret = <<"t1", "NL">> \o AnnotationOf(dispatches[1]) \o <<"NL", "f1">>

\* C7: cleanup never raises: not on a first call, not on a second call,
\* not before connect_to_servers, not after failed connection attempts;
\* and once it has run the exit stack is empty, so a further call
\* releases nothing.
C7_CleanupNeverRaises ==
    /\ ~cleanup_raised
    /\ mainpc \in {"cleaned", "exited"} => exit_stack = <<>>

C7_Witness ==
    /\ ncleanups = 2
    /\ failed_releases # {}
    /\ \E s \in Servers : task[s] = "failed"

\* The first sentinel line of a text, and the words that follow the
\* sentinel on it: the tool name, then the argument text.
SpecFirstSentinel(text) ==
    SplitLines(text)[CHOOSE i \in SpecSentinelLines(text) :
                         \A j \in SpecSentinelLines(text) : i <= j]

RECURSIVE AfterSentinel(_)
AfterSentinel(line) ==
    IF Head(line) = "TOOL_CALL:" THEN Words(Tail(line)) ELSE AfterSentinel(Tail(line))

SpecCallName(text) ==
    LET w == AfterSentinel(SpecFirstSentinel(text))
    IN IF w = <<>> THEN "" ELSE w[1]

SpecMalformedCall(text) ==
    /\ SpecSentinelLines(text) # {}
    /\ LET w == AfterSentinel(SpecFirstSentinel(text))
       IN Len(w) >= 2 /\ Tail(w) \notin {<<"{}">>, <<"{a:1}">>}

MalformedFirstReply ==
    /\ outcome \in {"returned", "raised"}
    /\ client_type = "qwen"
    /\ IsAnswer(replies[1])
    /\ SpecMalformedCall(replies[1].content)

\* C8 as the specification states it: malformed JSON on the first sentinel
\* line yields a dispatched invocation of that tool with no arguments,
\* plus an annotation, and no exception.
C8_MalformedJsonDispatched ==
    MalformedFirstReply =>
        /\ outcome = "returned"
        /\ dispatches # <<>>
        /\ dispatches[1].tool = SpecCallName(replies[1].content)
        /\ dispatches[1].args = "no-args"
        /\ \E i \in 1..Len(ret) : ret[i] = "parse-error:"

\* C8, amended: malformed JSON on the first sentinel line yields no
\* dispatch and no further provider call; process_query returns the
\* could-not-parse annotation followed by the reply text, and no exception
\* leaves it.
C8_MalformedJsonAnnotated ==
    MalformedFirstReply =>
        /\ outcome = "returned"
        /\ dispatches = <<>>
        /\ Len(calls) = 1
        /\ ret = <<"parse-error:", "JSONDecodeError", "NL">> \o replies[1].content

C8_Witness ==
    /\ MalformedFirstReply
    /\ replies[1].content = <<"TOOL_CALL:", "SP", "foo", "SP", "{bad", "NL",
                              "TOOL_CALL:", "SP", "add">>
    /\ "foo" \in DOMAIN tool_server_map

\* C9: in the text protocol at most one tool is dispatched per query, and
\* it is the one named on the first sentinel line of the first reply.
C9_FirstSentinelOnly ==
    client_type = "qwen" =>
        /\ Len(dispatches) <= 1
        /\ dispatches # <<>> =>
               /\ SpecSentinelLines(replies[1].content) # {}
               /\ dispatches[1].tool = SpecCallName(replies[1].content)

C9_Witness ==
    /\ client_type = "qwen"
    /\ outcome = "returned"
    /\ replies[1].content = <<"TOOL_CALL:", "SP", "foo", "NL",
                              "TOOL_CALL:", "SP", "add", "SP", "{}">>
    /\ Len(dispatches) = 1
    /\ dispatches[1].tool = "foo"
    /\ dispatches[1].result = "ok"
    /\ "add" \in DOMAIN tool_server_map

\* C10: under every interleaving of the connection tasks, when
\* connect_to_servers returns every launched task has finished, and every
\* connectable server is connected with all its tools in the routing
\* table, whatever step another server's attempt failed at.
C10_IsolatedFailures ==
    connect_returned =>
        /\ \A s \in EnabledSet : task[s] \in {"done", "failed"}
        /\ \A s \in Succeeding :
               /\ \E i \in 1..Len(servers) :
                      /\ servers[i].name = s
                      /\ Len(servers[i].tools) = Len(ServerTools(s))
                      /\ \A k \in 1..Len(ServerTools(s)) :
                             servers[i].tools[k] =
                                 [name |-> ServerTools(s)[k], server |-> s]
               /\ \A k \in 1..Len(ServerTools(s)) :
                      ServerTools(s)[k] \in DOMAIN tool_server_map

C10_Witness ==
    /\ connect_returned
    /\ \E s \in Servers : \E u \in Servers :
           /\ task[s] = "failed"
           /\ fate[s] = "initialize_fails"
           /\ task[u] = "done"
           /\ Len(exit_stack) = 4
           /\ exit_stack[1].server = u
           /\ exit_stack[4].server = u

(***************************************************************************)
(* Failures inside process_query.                                          *)
(***************************************************************************)
\* The errors a dispatch can end with.
DispatchErrors == {"UnknownTool", "ServerUnavailable", "InvocationFailed"}

FailedDispatches == {i \in 1..Len(dispatches) : dispatches[i].result \in DispatchErrors}
OkDispatches == {i \in 1..Len(dispatches) : dispatches[i].result = "ok"}

\* The places of a text where a failure annotation names error e.
FailureNotes(text, e) ==
    {i \in 1..(Len(text) - 1) :
        text[i] \in {"tool-call-failed:", "parse-error:"} /\ text[i + 1] = e}

\* A transcript that tells the provider of a dispatch failure.
HoldsFailure(msgs) ==
    \E k \in 1..Len(msgs) : Range(msgs[k].content) \cap DispatchErrors # {}

\* C11 as the specification states it: after a failed dispatch the answer
\* holds an annotation of the failure and a further provider call was made
\* with a transcript that holds the failure as tool-result content.
C11_FailureFedBack ==
    (outcome = "returned" /\ FailedDispatches # {}) =>
        /\ \A i \in FailedDispatches : FailureNotes(ret, dispatches[i].result) # {}
        /\ \E k \in 2..Len(calls) : HoldsFailure(calls[k].messages)

\* C11, amended: a failed dispatch is turned into an inline annotation in
\* the answer and nothing else: no transcript sent to the provider holds
\* the failure, and provider calls after the first are made only after
\* successful dispatches.  The text-protocol turn ends there, with the
\* annotation followed by the reply's own text.
C11_FailureAnnotatedOnly ==
    /\ \A k \in 1..Len(calls) : ~HoldsFailure(calls[k].messages)
    /\ Len(calls) <= 1 + Cardinality(OkDispatches)
    /\ outcome = "returned" =>
          /\ \A e \in DispatchErrors :
                 Cardinality(FailureNotes(ret, e))
                   = Cardinality({i \in FailedDispatches : dispatches[i].result = e})
          /\ Len(calls) = 1 + Cardinality(OkDispatches)
          /\ (client_type = "qwen" /\ FailedDispatches # {}) =>
                 /\ Len(calls) = 1
                 /\ ret = Lines(<<<<"parse-error:", dispatches[1].result>>,
                                  replies[1].content>>)

C11_Witness ==
    /\ outcome = "returned"
    /\ client_type = "anthropic"
    /\ Len(dispatches) = 2
    /\ dispatches[1].result = "InvocationFailed"
    /\ dispatches[2].result = "ok"
    /\ Len(calls) = 2

\* The tool-use blocks of a native reply, in block order.
RECURSIVE ToolUses(_)
ToolUses(blocks) ==
    IF blocks = <<>> THEN <<>>
    ELSE (IF Head(blocks).type = "tool_use" THEN <<Head(blocks)>> ELSE <<>>)
         \o ToolUses(Tail(blocks))

\* A reply to a transcript that already holds a tool result.
FollowUps == {k \in 2..Len(replies) : TRUE}

\* C12 as the specification states it: a query that made a follow-up call
\* ends only on a reply that holds no tool invocation.
C12_LoopUntilNoInvocation ==
    (outcome = "returned" /\ FollowUps # {}) =>
        InvocationCount(replies[Len(replies)]) = 0

\* What the native branch takes from a follow-up reply: the text of its
\* first block, which a reply with no block or a tool-use block in front
\* does not have.
FollowUpSegment(r) ==
    IF r.blocks = <<>> THEN <<"tool-call-failed:", "IndexError">>
    ELSE IF r.blocks[1].type = "tool_use" THEN <<"tool-call-failed:", "AttributeError">>
    ELSE r.blocks[1].text

RECURSIVE SegmentsWithFollowUp(_, _, _)
SegmentsWithFollowUp(blocks, d, follow) ==
    IF blocks = <<>> THEN <<>>
    ELSE (IF Head(blocks).type = "text" THEN <<Head(blocks).text>>
          ELSE <<AnnotationOf(d), FollowUpSegment(follow)>>)
         \o SegmentsWithFollowUp(Tail(blocks), d, follow)

\* The first reply held one invocation, it was dispatched, and the
\* follow-up reply holds a tool invocation itself.
FollowUpInvokes ==
    /\ outcome = "returned"
    /\ InvocationCount(replies[1]) = 1
    /\ Len(replies) >= 2
    /\ IsAnswer(replies[2])
    /\ InvocationCount(replies[2]) >= 1

\* C12, amended: only the first reply of a query is searched for tool
\* invocations.  Every dispatch is of an invocation of the first reply, in
\* order (at most one with the text protocol), so a query makes at most
\* one provider call per invocation of the first reply after the first
\* call; an invocation in a follow-up reply is not dispatched and the
\* query ends with that reply's text in the answer.
C12_FirstReplyOnly ==
    /\ client_type = "qwen" => Len(dispatches) <= 1
    /\ (client_type = "anthropic" /\ replies # <<>>) =>
          /\ Len(dispatches) <= Len(ToolUses(replies[1].blocks))
          /\ \A i \in 1..Len(dispatches) :
                 /\ dispatches[i].tool = ToolUses(replies[1].blocks)[i].name
                 /\ dispatches[i].args = ToolUses(replies[1].blocks)[i].input
    /\ replies # <<>> => Len(replies) <= 1 + InvocationCount(replies[1])
    /\ FollowUpInvokes =>
          /\ Len(dispatches) = 1
          /\ Len(replies) = 2
          /\ ret = IF client_type = "qwen"
                   THEN Lines(<<AnnotationOf(dispatches[1]), replies[2].content>>)
                   ELSE Lines(SegmentsWithFollowUp(replies[1].blocks, dispatches[1],
                                                   replies[2]))

C12_Witness ==
    /\ FollowUpInvokes
    /\ client_type = "anthropic"
    /\ replies[2] = NativeResponse(<<TextBlock("f1"), ToolUseBlock("foo", "a=1")>>)
    /\ dispatches[1].result = "ok"

\* C13: with the text protocol, a provider call that reports a failure is
\* the last call of its query, and the text the query returns holds an
\* error message.
C13_ProviderErrorSurfaced ==
    (client_type = "qwen" /\ outcome = "returned") =>
        \A k \in 1..Len(replies) :
            replies[k] = QwenError =>
                /\ k = Len(replies)
                /\ \E i \in 1..Len(ret) : ret[i] = "error:"

\* C14: for either strategy, a dispatch that ends with an error does not
\* make process_query raise: the only query that ends by raising is one
\* whose first provider call raised, before any dispatch.
C14_DispatchErrorsContained ==
    /\ FailedDispatches # {} => outcome \in {"running", "returned"}
    /\ outcome = "raised" => (dispatches = <<>> /\ replies = <<Raised>>)

C14_Witness ==
    /\ outcome = "returned"
    /\ client_type = "qwen"
    /\ Len(dispatches) = 1
    /\ dispatches[1].result = "UnknownTool"
    /\ ret # <<>>

(***************************************************************************)
(* Teardown and the exit of main.                                          *)
(***************************************************************************)
\* The handles the connection phase put on the exit stack.
EnteredHandles ==
    {<<"stdio", s>> : s \in {x \in Servers : "spawn" \in Range(steps[x])}}
    \cup {<<"session", s>> : s \in {x \in Servers : "session" \in Range(steps[x])}}

ReleasedHandles == {<<released[i].kind, released[i].server>> : i \in 1..Len(released)}

CleanupOver == ncleanups >= 1 /\ mainpc \in {"exited", "cleaned"}

\* C15: once cleanup has run, the release of every handle that was entered
\* has been attempted, whichever releases failed, each once, and no
\* exception left cleanup.
C15_EveryHandleReleased ==
    CleanupOver =>
        /\ ReleasedHandles = EnteredHandles
        /\ Len(released) = Cardinality(EnteredHandles)
        /\ exit_stack = <<>>
        /\ ~cleanup_raised

C15_Witness ==
    /\ CleanupOver
    /\ Len(released) = 4
    /\ released[1] \in failed_releases
    /\ released[3] \in failed_releases
    /\ released[4] \notin failed_releases

\* C16: main() calls cleanup at most once, and exactly once before the
\* process exits: after sys.exit(1) with no server connected, after the
\* chat loop returned and after an exception left the chat loop.
C16_CleanupExactlyOnce ==
    driver = "main" =>
        /\ ncleanups <= 1
        /\ mainpc = "closing" => ncleanups = 0
        /\ mainpc = "exited" => ncleanups = 1
        /\ mainpc \notin {"closing", "exited"} => ncleanups = 0

C16_Witness ==
    /\ driver = "main"
    /\ mainpc = "exited"
    /\ ncleanups = 1
    /\ exit_code = 1
    /\ spawned # {}
    /\ Len(released) >= 1

\* C17: when main() finds no server connected after connect_to_servers,
\* the chat loop is not entered, no query is processed, no provider call
\* is made and the exit code is not 0; when the chat loop read quit the
\* exit code is 0.
C17_ExitCodes ==
    driver = "main" =>
        /\ (connect_returned /\ ConnectedNames = {}) =>
              /\ mainpc \in {"connected", "no_servers", "closing", "exited"}
              /\ qpc = "idle"
              /\ outcome = "none"
              /\ calls = <<>>
              /\ ~quit_read
              /\ mainpc \in {"no_servers", "closing", "exited"} => exit_code >= 1
        /\ quit_read => (exit_code = 0 /\ mainpc \in {"quit", "closing", "exited"})
        /\ mainpc = "exited" => exit_code >= 0

C17_Witness ==
    /\ driver = "main"
    /\ mainpc = "exited"
    /\ Cardinality(EnabledSet) = 2
    /\ ConnectedNames = {}
    /\ exit_code = 1
    /\ calls = <<>>

(***************************************************************************)
(* The tool catalogue and the connection steps.                            *)
(***************************************************************************)
\* The tools the servers that connect report, each with its server.
ReportedTools ==
    UNION {{[name |-> ServerTools(s)[i], server |-> s] : i \in 1..Len(ServerTools(s))} :
             s \in Succeeding}

\* C18: after connect_to_servers, get_all_tools holds one entry for every
\* tool of every connected server, each with the name of the server that
\* reported it, and none of a server that failed or is disabled; a query
\* is handed that catalogue.
C18_AllToolsOfConnected ==
    connect_returned =>
        /\ Range(get_all_tools(servers)) = ReportedTools
        /\ Len(get_all_tools(servers)) = Cardinality(ReportedTools)
        /\ qpc # "idle" => Range(available_tools) = ReportedTools

C18_Witness ==
    /\ connect_returned
    /\ Succeeding = {"B"}
    /\ "A" \in spawned
    /\ qpc = "call_first"
    /\ Len(available_tools) = 2

\* The launch target exists and is a .py or a .js script.
ValidTarget(s) == server_configs[s].script_path \in {"srv.py", "srv.js"}

\* C19: a disabled descriptor is never attempted; an attempt whose launch
\* target does not exist or is of no recognised kind fails after its
\* validation, before any subprocess is spawned; a successful attempt took
\* the steps validate, spawn, session, handshake, list tools, register in
\* this order, and every attempt follows that order as far as it gets.
C19_ConnectSteps ==
    \A s \in Servers :
        /\ ~server_configs[s].enabled =>
              (steps[s] = <<>> /\ task[s] = "none" /\ s \notin spawned)
        /\ (steps[s] # <<>> /\ ~ValidTarget(s)) =>
              (steps[s] = <<"validate">> /\ task[s] = "failed" /\ s \notin spawned)
        /\ \E k \in 0..6 :
              steps[s] = SubSeq(<<"validate", "spawn", "session", "handshake",
                                  "list_tools", "register">>, 1, k)
        /\ task[s] = "done" <=> Len(steps[s]) = 6
        /\ s \in ConnectedNames => Len(steps[s]) = 6

C19_Witness ==
    /\ task["A"] = "failed"
    /\ server_configs["A"].script_path = "srv.txt"
    /\ task["B"] = "done"
    /\ "B" \in ConnectedNames

\* The session of a server is live: entered and not yet released.
SessionLive(s) ==
    \E i \in 1..Len(exit_stack) :
        exit_stack[i].kind = "session" /\ exit_stack[i].server = s

\* C20: in every state each entry of the routing table names a server of
\* the connected set, and every server of the connected set has a live
\* session.
C20_RoutingTableLive ==
    /\ \A n \in DOMAIN tool_server_map :
           tool_server_map[n] \in ConnectedNames /\ SessionLive(tool_server_map[n])
    /\ \A s \in ConnectedNames : SessionLive(s)

(***************************************************************************)
(* The transcript.                                                         *)
(***************************************************************************)
\* An assistant message that carries a tool invocation: with the text
\* protocol its text holds a sentinel line.  The native branch stores only
\* the text of a block in an assistant message, never a tool-use block.
CarriesInvocation(m) ==
    m.role = "assistant" /\ SpecSentinelLines(m.content) # {}

\* A tool-result message, as either strategy stores it.
IsToolResult(m) ==
    /\ m.role = "user"
    /\ m.content # <<>>
    /\ m.content[Len(m.content)] \in {"result@A", "result@B"}

\* C21: in the transcript of every provider call, each assistant message
\* that carries a tool invocation is directly followed by the tool-result
\* message of the invocation that was dispatched for it, the one of its
\* first sentinel line.
C21_NoDanglingInvocation ==
    \A k \in 1..Len(calls) :
        LET t == calls[k].messages
        IN \A i \in 1..Len(t) :
               CarriesInvocation(t[i]) =>
                   /\ i < Len(t)
                   /\ IsToolResult(t[i + 1])
                   /\ dispatches # <<>>
                   /\ dispatches[1].result = "ok"
                   /\ IsToolResultOf(t[i + 1], dispatches[1])

C21_Witness ==
    /\ client_type = "qwen"
    /\ Len(calls) = 2
    /\ \E i \in 1..Len(calls[2].messages) : CarriesInvocation(calls[2].messages[i])
    /\ dispatches[1].session = "A"

IsPrefix(a, b) == Len(a) <= Len(b) /\ SubSeq(b, 1, Len(a)) = a

\* The transcript `sent` is the stored transcript `stored` replayed: as it
\* is, or with the tool catalogue put in front of the text of its first
\* user message and everything else verbatim.
Replays(sent, stored) ==
    /\ Len(sent) = Len(stored)
    /\ \A i \in 2..Len(stored) : sent[i] = stored[i]
    /\ sent[1].role = stored[1].role
    /\ Len(sent[1].content) >= Len(stored[1].content)
    /\ SubSeq(sent[1].content,
              Len(sent[1].content) - Len(stored[1].content) + 1,
              Len(sent[1].content)) = stored[1].content
    /\ (Len(sent[1].content) > Len(stored[1].content)) => sent[1].content[1] = "tools-info:"

\* One step of the program, as far as the transcript goes.
TranscriptStep ==
    /\ (qpc = "idle" /\ qpc' # "idle") =>
           messages' = <<[role |-> "user", content |-> <<"query">>]>>
    /\ (qpc # "idle" /\ qpc' # "idle") => IsPrefix(messages, messages')
    /\ (Len(calls') > Len(calls) /\ qpc # "idle" /\ qpc' # "idle") =>
           /\ messages' = messages
           /\ Replays(calls'[Len(calls')].messages, messages)
    /\ \A j \in 1..Len(calls') : \A k \in j..Len(calls') :
           IsPrefix(calls'[j].messages, calls'[k].messages)

\* C22: a query's transcript starts as the one user message that holds the
\* query, every later step of the query leaves it as it is or appends to
\* it, a provider call leaves it unchanged and is sent a replay of it, and
\* what one provider call is sent is a prefix of what every later call of
\* the query is sent.
C22_AppendOnly == [][TranscriptStep]_vars

C22_Witness ==
    /\ client_type = "qwen"
    /\ qpc = "return"
    /\ Len(calls) = 2
    /\ Len(messages) = 3
    /\ messages[1].content = <<"query">>
    /\ calls[2].messages[1].content[1] = "tools-info:"
    /\ IsPrefix(calls[1].messages, calls[2].messages)

(***************************************************************************)
(* Several tool invocations in one native reply.                           *)
(***************************************************************************)
\* The tool-result messages of a transcript, in order.
ToolResultsIn(t) == SelectSeq(t, IsToolResult)

\* The dispatches that succeeded, in order.
OkDispatchSeq == SelectSeq(dispatches, LAMBDA d : d.result = "ok")

\* The place among all dispatches of the n-th one that succeeded.
OkIndex(n) ==
    CHOOSE i \in 1..Len(dispatches) :
        /\ dispatches[i].result = "ok"
        /\ Cardinality({j \in 1..i : dispatches[j].result = "ok"}) = n

\* C23 as the specification states it: the follow-up call made after the
\* i-th dispatch is sent the tool results of the invocations 1..i.
C23_ResultsOfAllEarlier ==
    client_type = "anthropic" =>
        \A k \in 2..Len(calls) :
            (k - 1 <= Len(OkDispatchSeq)) =>
                Len(ToolResultsIn(calls[k].messages)) = OkIndex(k - 1)

\* C23, amended: the tool-use blocks of the first native reply are
\* dispatched one at a time in block order, each dispatch after the
\* follow-up call of the one before it; a follow-up call is made only after
\* a dispatch that succeeded, and it is sent the tool results of the
\* invocations among 1..i that succeeded, in order, a failed dispatch
\* leaving nothing in the transcript.
C23_SequentialDispatch ==
    (client_type = "anthropic" /\ replies # <<>> /\ qpc # "idle") =>
        /\ Len(dispatches) <= Len(ToolUses(replies[1].blocks))
        /\ \A i \in 1..Len(dispatches) :
               dispatches[i].tool = ToolUses(replies[1].blocks)[i].name
        /\ qpc = "dispatch" =>
               /\ Len(dispatches) < Len(ToolUses(replies[1].blocks))
               /\ cur.name = ToolUses(replies[1].blocks)[Len(dispatches) + 1].name
               /\ Len(calls) = 1 + Len(OkDispatchSeq)
        /\ qpc = "call_next" =>
               /\ dispatches[Len(dispatches)].result = "ok"
               /\ Len(calls) = Len(OkDispatchSeq)
        /\ \A k \in 2..Len(calls) :
               /\ k - 1 <= Len(OkDispatchSeq)
               /\ Len(ToolResultsIn(calls[k].messages)) = k - 1
               /\ \A j \in 1..(k - 1) :
                      IsToolResultOf(ToolResultsIn(calls[k].messages)[j], OkDispatchSeq[j])

C23_Witness ==
    /\ client_type = "anthropic"
    /\ qpc = "blocks"
    /\ Len(dispatches) = 2
    /\ Len(calls) = 3
    /\ Len(ToolResultsIn(calls[3].messages)) = 2

(***************************************************************************)
(* The order of the answer's segments.                                     *)
(***************************************************************************)
\* The places of a text that hold a word of the prose of reply r.
ProsePlaces(text, r) == {i \in 1..Len(text) : text[i] \in ProseWords(r)}

\* C24 as the specification states it: in the answer no text of the first
\* reply stands after text of a later reply.
C24_EmissionOrder ==
    outcome = "returned" =>
        \A k \in 2..Len(replies) :
            \A i \in ProsePlaces(ret, replies[k]) :
                \A j \in ProsePlaces(ret, replies[1]) : j < i

\* What a follow-up call leaves in the native answer.
FollowUpOutcome(r) ==
    IF r = Raised THEN <<"tool-call-failed:", "ProviderRaised">>
    ELSE FollowUpSegment(r)

\* The segments of the native answer: block by block of the first reply,
\* a text block its text, a tool-use block the failure annotation of its
\* dispatch or, when the dispatch succeeded, the calling-tool annotation
\* and then what the follow-up call left.  di and ri are the places of the
\* next dispatch and of the next reply.
RECURSIVE NativeAnswer(_, _, _)
NativeAnswer(blocks, di, ri) ==
    IF blocks = <<>> THEN <<>>
    ELSE IF Head(blocks).type = "text"
    THEN <<Head(blocks).text>> \o NativeAnswer(Tail(blocks), di, ri)
    ELSE IF dispatches[di].result = "ok"
    THEN <<AnnotationOf(dispatches[di]), FollowUpOutcome(replies[ri])>>
         \o NativeAnswer(Tail(blocks), di + 1, ri + 1)
    ELSE <<<<"tool-call-failed:", dispatches[di].result>>>>
         \o NativeAnswer(Tail(blocks), di + 1, ri)

\* C24, amended: the answer is the segments joined by line breaks in the
\* order process_query appended them.  In the native strategy that is the
\* block order of the first reply, with the text of a follow-up reply
\* right after the annotation of the tool-use block it answers, so text
\* blocks of the first reply that come after a tool-use block stand after
\* the follow-up text.  With the text protocol the answer of a query that
\* made a follow-up call holds the annotation and then the follow-up text,
\* and no text of the first reply.
C24_AppendOrder ==
    outcome = "returned" =>
        /\ client_type = "anthropic" =>
               ret = Lines(NativeAnswer(replies[1].blocks, 1, 2))
        /\ (client_type = "qwen" /\ Len(replies) = 2 /\ IsAnswer(replies[2])) =>
               ret = Lines(<<AnnotationOf(dispatches[1]), replies[2].content>>)

C24_Witness ==
    /\ outcome = "returned"
    /\ client_type = "anthropic"
    /\ replies[1] = NativeResponse(<<ToolUseBlock("foo", "a=1"), TextBlock("t1")>>)
    /\ Len(replies) = 2
    /\ replies[2] = NativeResponse(<<TextBlock("f1")>>)
    /\ ret = AnnotationOf(dispatches[1]) \o <<"NL", "f1", "NL", "t1">>

(***************************************************************************)
(* The conversation phase.                                                 *)
(***************************************************************************)
\* A step that changes the connected set or the routing table is the
\* registration step of a connection attempt.
RegistryStep ==
    (servers' # servers \/ tool_server_map' # tool_server_map) =>
        /\ mainpc = "gathering"
        /\ qpc = "idle"
        /\ \E s \in Servers : task[s] = "listing" /\ task'[s] = "done"

\* C25: the connected set and the routing table are changed by the
\* registration of a connection attempt only; the steps of process_query,
\* its dispatches and provider calls, and the servers and tools commands
\* leave both as they are.
C25_RegistryReadOnlyInChat == [][RegistryStep]_vars

C25_Witness ==
    /\ mainpc = "chat"
    /\ outcome = "returned"
    /\ Len(servers) = 2
    /\ Len(dispatches) = 2
    /\ dispatches[1].result = "ok"
    /\ dispatches[2].result = "UnknownTool"
    /\ DOMAIN tool_server_map = {"foo", "add", "cnt"}

\* One step of the program, as far as the chat loop goes.
ChatLoopStep ==
    /\ (outcome # "raised" /\ outcome' = "raised") =>
           /\ replies' = <<Raised>>
           /\ console' # <<>>
           /\ console'[1] = "error:"
    /\ outcome' \in {"raised", "returned"} => (mainpc' = "chat" /\ qpc' = "idle")
    /\ (mainpc = "chat" /\ mainpc' # "chat") =>
           /\ qpc = "idle"
           /\ quit_read' \/ mainpc' = "interrupted"

\* C26: a query that fails, by a dispatch error or by an exception of its
\* first provider call, leaves the chat loop running: the failure is shown
\* as text and the loop is at its prompt again.  The loop is left from the
\* prompt only, by the quit command or by an interrupt of the process,
\* which is no failure of a query.
C26_ChatLoopSurvives == [][ChatLoopStep]_vars

C26_Witness ==
    /\ mainpc = "chat"
    /\ qpc = "idle"
    /\ outcome = "raised"
    /\ replies = <<Raised>>
    /\ console = <<"error:", "ProviderRaised">>

(***************************************************************************)
(* Termination of a query.                                                 *)
(***************************************************************************)
\* A number that bounds the steps a query has left once its first reply
\* is in: three for every block of the first native reply not yet done,
\* less the steps taken on the current one.
StepsLeft(pc, i, r) ==
    IF pc = "idle" THEN 0
    ELSE IF pc = "return" THEN 1
    ELSE IF pc = "scan" THEN 5
    ELSE LET rest == IF r.blocks = <<>> THEN 0 ELSE 3 * (Len(r.blocks) + 1 - i)
         IN rest + (IF pc = "blocks" THEN 4 ELSE IF pc = "dispatch" THEN 3 ELSE 2)

\* The provider calls the first reply of a query allows.
CallBound ==
    IF client_type = "qwen" THEN 2
    ELSE 1 + (IF replies = <<>> THEN 0 ELSE Len(ToolUses(replies[1].blocks)))

\* A query that is under way can take a step.
QueryCanStep ==
    qpc # "idle" =>
        \/ qpc \in {"call_first", "scan", "dispatch", "call_next", "return"}
        \/ qpc = "blocks" /\ idx \in 1..(Len(response.blocks) + 1)

\* Every step of a query after its first provider call brings it nearer
\* to its end, and the first provider call is one step.
QueryStepDecreases ==
    /\ qpc = "call_first" => qpc' # "call_first"
    /\ qpc \notin {"idle", "call_first"} =>
           /\ StepsLeft(qpc', idx', response') < StepsLeft(qpc, idx, response)
           /\ StepsLeft(qpc', idx', response') >= 0
    /\ Len(calls') <= CallBound'
    /\ QueryCanStep'

\* C27: a query whose collaborators return ends: it can always take a
\* step, and each step lowers a bound on the steps left.  The provider
\* calls of a query are at most 2 with the text protocol and at most 1 + n
\* in the native strategy, n being the tool-use blocks of the first reply;
\* a tool invocation in a follow-up reply adds no call.
C27_QueryTerminates == [][QueryStepDecreases]_vars

C27_Witness ==
    /\ outcome = "returned"
    /\ client_type = "anthropic"
    /\ Len(ToolUses(replies[1].blocks)) = 2
    /\ Len(calls) = 3
    /\ ToolUses(replies[3].blocks) # <<>>

(***************************************************************************)
(* Concurrent connection attempts.                                         *)
(***************************************************************************)
\* The connected set and the routing table agree: every tool of a connected
\* server is routed, to a connected server that exposes it; nothing else is
\* routed; a server whose attempt has not succeeded is in neither.
RoutingWhole ==
    /\ \A s \in ConnectedNames : \A n \in Range(ServerTools(s)) :
           /\ n \in DOMAIN tool_server_map
           /\ tool_server_map[n] \in ConnectedNames
           /\ n \in Range(ServerTools(tool_server_map[n]))
    /\ DOMAIN tool_server_map = UNION {Range(ServerTools(s)) : s \in ConnectedNames}
    /\ \A s \in Servers : task[s] # "done" =>
           /\ s \notin ConnectedNames
           /\ \A n \in DOMAIN tool_server_map : tool_server_map[n] # s

RegistrationStep ==
    /\ RoutingWhole'
    /\ \A s \in Servers :
           (task[s] # "failed" /\ task'[s] = "failed") =>
               /\ servers' = servers
               /\ tool_server_map' = tool_server_map
    /\ \A s \in Servers :
           (s \notin ConnectedNames /\ s \in ConnectedNames') =>
               \A n \in Range(ServerTools(s)) :
                   n \in DOMAIN tool_server_map' /\ tool_server_map'[n] = s

\* C28: no state shows a server in the connected set with only some of its
\* tools in the routing table: the step that connects a server routes all
\* its tools to it, and the step in which an attempt fails, at validation,
\* spawn, handshake or tool listing, changes neither the connected set nor
\* the routing table.
C28_RegistrationAtomic == [][RegistrationStep]_vars

C28_Witness ==
    /\ mainpc = "gathering"
    /\ Names(servers) = <<"A">>
    /\ DOMAIN tool_server_map = {"foo", "add"}
    /\ task["B"] = "failed"
    /\ fate["B"] = "list_tools_fails"

\* C29: when A and B both connect, foo is routed to the one whose tool
\* listing finished last, whatever the configuration order, and that one
\* is connected and lists foo.
C29_LastListingDecides ==
    (connect_returned /\ Succeeding = {"A", "B"}) =>
        /\ Len(servers) = 2
        /\ LET last == servers[2].name
           IN /\ "foo" \in DOMAIN tool_server_map
              /\ tool_server_map["foo"] = last
              /\ last \in ConnectedNames
              /\ "foo" \in Range(ToolNames(servers[2].tools))
              /\ "foo" \in Range(ServerTools(last))

C29_Witness ==
    /\ connect_returned
    /\ ConfigOrder = <<"A", "B">>
    /\ Names(servers) = <<"B", "A">>
    /\ tool_server_map["foo"] = "A"

\* The other final state of C29: the configuration order.
C29_ConfigOrderState ==
    /\ connect_returned
    /\ Names(servers) = <<"A", "B">>
    /\ tool_server_map["foo"] = "B"

HeldHandles == {<<exit_stack[i].kind, exit_stack[i].server>> : i \in 1..Len(exit_stack)}

\* C30: until cleanup starts every handle entered by a connection attempt,
\* a failed one included, is on the exit stack and none has been released;
\* at any time a handle entered is either held or released; once cleanup
\* is over none is held and all have been released.
C30_HandlesHeldUntilCleanup ==
    /\ (ncleanups = 0 /\ mainpc # "closing") =>
           /\ released = <<>>
           /\ HeldHandles = EnteredHandles
    /\ HeldHandles \cup ReleasedHandles = EnteredHandles
    /\ HeldHandles \cap ReleasedHandles = {}
    /\ CleanupOver =>
           /\ HeldHandles = {}
           /\ ReleasedHandles = EnteredHandles

C30_Witness ==
    /\ CleanupOver
    /\ \E s \in Servers :
           /\ task[s] = "failed"
           /\ fate[s] \in {"initialize_fails", "list_tools_fails"}
           /\ <<"stdio", s>> \in ReleasedHandles
           /\ <<"session", s>> \in ReleasedHandles
====
